---- MODULE Spec2Model ----
(***************************************************************************)
(* jvpm/class_file.py: ClassFile.__init__ decodes a Java .class file with  *)
(* a byte cursor (data, offset).  The constructor is modelled as a state   *)
(* machine: one action per straight-line segment of __init__ and one per   *)
(* iteration of the loops of get_constant_pool, get_info, get_attributes.  *)
(* Bytes are integers 0..255, byte strings are sequences of bytes, Python  *)
(* 0-based positions are kept (data[offset] in Python is data[offset + 1]  *)
(* here).                                                                  *)
(***************************************************************************)
EXTENDS Integers, Sequences, FiniteSets, TLC

\* Bounds of the input files the model decodes.
MaxPool == 2
MaxAttrs == 2
MaxLen == 2

VARIABLES
    data, offset, i_am_code, run_code,            \* lines 17-20
    magic, minor, major, pool_count, cp_begin,    \* lines 21-27
    constant_pool,                                \* line 28
    access_flags, this_class, super_class,        \* lines 30-32
    interfaces_count, interfaces_begin, interfaces,
    fields_count, fields_begin, fields,
    methods_count, methods_begin, methods,
    class_attributes_count, class_attributes,
    pool, index, range_next, tag,                 \* locals of get_constant_pool
    info, val, count, section,                    \* locals of get_info, and its caller
    attributes, num_attributes, attr_count,       \* locals of get_attributes
    pc, err, reads                                \* control, pending exception, read log

cursor == <<data, offset>>
header == <<magic, minor, major, pool_count, cp_begin>>
code == <<i_am_code, run_code>>
cpool == <<pool, index, range_next, tag>>
classinfo == <<access_flags, this_class, super_class>>
sections == <<interfaces_count, interfaces_begin, interfaces,
              fields_count, fields_begin, fields,
              methods_count, methods_begin, methods,
              class_attributes_count, class_attributes>>
infolocals == <<info, val, count, section>>
attrlocals == <<attributes, num_attributes, attr_count>>
vars == <<cursor, header, code, constant_pool, classinfo, sections, cpool,
          infolocals, attrlocals, pc, err, reads>>

\* An attribute or local that has not been assigned yet.
Unset == <<>>

Min(a, b) == IF a < b THEN a ELSE b

----------------------------------------------------------------------------
(* Python primitives *)

\* data[off : off + n]: a slice never fails, it is cut at the end of data.
Slice(off, n) == SubSeq(data, Min(off, Len(data)) + 1, Min(off + n, Len(data)))

\* int.from_bytes(b, byteorder="big"); the empty byte string gives 0.
RECURSIVE from_bytes(_)
from_bytes(b) ==
    IF b = <<>> THEN 0
    ELSE from_bytes(SubSeq(b, 1, Len(b) - 1)) * 256 + b[Len(b)]

IsCont(b, k) == k <= Len(b) /\ b[k] >= 128 /\ b[k] <= 191

\* One character at b[k], as Python's strict UTF-8 decoder reads it: the
\* number of bytes it takes and its code point, or ok = FALSE for a byte
\* sequence the decoder rejects.
utf8_char(b, k) ==
    LET c == b[k] IN
    CASE c < 128 -> [ok |-> TRUE, n |-> 1, cp |-> c]
      [] c >= 194 /\ c <= 223 /\ IsCont(b, k + 1) ->
           [ok |-> TRUE, n |-> 2, cp |-> (c - 192) * 64 + (b[k + 1] - 128)]
      [] c >= 224 /\ c <= 239 /\ IsCont(b, k + 1) /\ IsCont(b, k + 2)
           /\ (c = 224 => b[k + 1] >= 160) /\ (c = 237 => b[k + 1] <= 159) ->
           [ok |-> TRUE, n |-> 3,
            cp |-> (c - 224) * 4096 + (b[k + 1] - 128) * 64 + (b[k + 2] - 128)]
      [] c >= 240 /\ c <= 244 /\ IsCont(b, k + 1) /\ IsCont(b, k + 2)
           /\ IsCont(b, k + 3)
           /\ (c = 240 => b[k + 1] >= 144) /\ (c = 244 => b[k + 1] <= 143) ->
           [ok |-> TRUE, n |-> 4,
            cp |-> (c - 240) * 262144 + (b[k + 1] - 128) * 4096
                   + (b[k + 2] - 128) * 64 + (b[k + 3] - 128)]
      [] OTHER -> [ok |-> FALSE, n |-> 0, cp |-> 0]

\* bytes.decode("utf-8"), strict: the text as a sequence of code points, or
\* ok = FALSE where Python raises UnicodeDecodeError.
RECURSIVE decode_utf8(_, _, _)
decode_utf8(b, k, text) ==
    IF k > Len(b) THEN [ok |-> TRUE, text |-> text]
    ELSE IF ~utf8_char(b, k).ok THEN [ok |-> FALSE, text |-> text]
    ELSE decode_utf8(b, k + utf8_char(b, k).n, Append(text, utf8_char(b, k).cp))

\* struct.unpack(fmt, b): struct.error unless b has exactly `size` bytes;
\* otherwise a 1-tuple holding the number whose native-order bit pattern is b
\* (kept as the bit pattern, no arithmetic is done on it).
struct_unpack(size, b) ==
    IF Len(b) = size THEN [ok |-> TRUE, value |-> <<b>>]
    ELSE [ok |-> FALSE, value |-> <<>>]

\* The text "Code" as code points.
CodeText == <<67, 111, 100, 101>>

----------------------------------------------------------------------------
(* The read primitives, lines 196-238.  Each returns the value, the offset *)
(* after the call, the exception raised ("" for none) and a log entry per  *)
(* primitive call: where it read, how many bytes it asked for and got.     *)

Rd(prim, at, want, got) == [prim |-> prim, at |-> at, want |-> want, got |-> got]

get_u1(off) ==
    IF off >= Len(data)
    THEN [value |-> 0, offset |-> off, err |-> "IndexError",
          rds |-> <<Rd("get_u1", off, 1, 0)>>]
    ELSE [value |-> data[off + 1], offset |-> off + 1, err |-> "",
          rds |-> <<Rd("get_u1", off, 1, 1)>>]

get_fixed(prim, n, off) ==
    [value |-> Slice(off, n), offset |-> off + n, err |-> "",
     rds |-> <<Rd(prim, off, n, Len(Slice(off, n)))>>]

get_u2(off) == get_fixed("get_u2", 2, off)

get_u4(off) == get_fixed("get_u4", 4, off)

get_u8(off) == get_fixed("get_u8", 8, off)

\* Lines 235-237: length bytes are read at offset at.
extended_at(at, length, rds) ==
    [value |-> Slice(at, length), offset |-> at + length, err |-> "",
     rds |-> rds \o <<Rd("get_extended", at, length, Len(Slice(at, length)))>>]

\* Lines 233-234: pre is the u2 read as the length.
extended_prefixed(pre) == extended_at(pre.offset, from_bytes(pre.value), pre.rds)

\* A length of 0 is taken as "no length supplied".
get_extended(off, length) ==
    IF length = 0 THEN extended_prefixed(get_u2(off)) ELSE extended_at(off, length, <<>>)

----------------------------------------------------------------------------
(* get_constant_pool, lines 60-151 *)

Aspect(name, read, conv) == [name |-> name, read |-> read, conv |-> conv]

U2Int(name) == Aspect(name, "get_u2", "int")

RefPair(first) == <<U2Int(first), U2Int("name_and_type_index")>>

\* The table with the Long entry read by get_u4, as the Integer entry is.
tag_table_long_u4 ==
    (1 :> [type |-> "utf-8", aspects |-> <<Aspect("value", "get_extended", "utf-8")>>])
    @@ (3 :> [type |-> "Integer", aspects |-> <<Aspect("value", "get_u4", "int")>>])
    @@ (4 :> [type |-> "Float", aspects |-> <<Aspect("value", "get_u4", "unpack_f")>>])
    @@ (5 :> [type |-> "Long", aspects |-> <<Aspect("value", "get_u4", "int")>>])
    @@ (6 :> [type |-> "Double", aspects |-> <<Aspect("value", "get_u8", "unpack_d")>>])
    @@ (7 :> [type |-> "Class", aspects |-> <<U2Int("name_index")>>])
    @@ (8 :> [type |-> "String", aspects |-> <<U2Int("string_index")>>])
    @@ (9 :> [type |-> "Fieldref", aspects |-> RefPair("class_index")])
    @@ (10 :> [type |-> "Methodref", aspects |-> RefPair("class_index")])
    @@ (11 :> [type |-> "InterfaceMethodref", aspects |-> RefPair("class_index")])
    @@ (12 :> [type |-> "NameAndType",
               aspects |-> <<U2Int("name_index"), U2Int("descriptor_index")>>])
    @@ (15 :> [type |-> "MethodHandle",
               aspects |-> <<Aspect("reference_kind", "get_u1", "none"),
                             U2Int("reference_index")>>])
    @@ (16 :> [type |-> "MethodType", aspects |-> <<U2Int("descriptor_index")>>])
    @@ (18 :> [type |-> "InvokeDynamic",
               aspects |-> RefPair("bootstrap_method_attr_index")])

\* tag_table, lines 64-137: per tag, the type and the aspects in the order of
\* the dict, each with the primitive that reads it and the conversion applied.
tag_table ==
    (1 :> [type |-> "utf-8", aspects |-> <<Aspect("value", "get_extended", "utf-8")>>])
    @@ (3 :> [type |-> "Integer", aspects |-> <<Aspect("value", "get_u4", "int")>>])
    @@ (4 :> [type |-> "Float", aspects |-> <<Aspect("value", "get_u4", "unpack_f")>>])
    @@ (5 :> [type |-> "Long", aspects |-> <<Aspect("value", "get_u8", "int")>>])
    @@ (6 :> [type |-> "Double", aspects |-> <<Aspect("value", "get_u8", "unpack_d")>>])
    @@ (7 :> [type |-> "Class", aspects |-> <<U2Int("name_index")>>])
    @@ (8 :> [type |-> "String", aspects |-> <<U2Int("string_index")>>])
    @@ (9 :> [type |-> "Fieldref", aspects |-> RefPair("class_index")])
    @@ (10 :> [type |-> "Methodref", aspects |-> RefPair("class_index")])
    @@ (11 :> [type |-> "InterfaceMethodref", aspects |-> RefPair("class_index")])
    @@ (12 :> [type |-> "NameAndType",
               aspects |-> <<U2Int("name_index"), U2Int("descriptor_index")>>])
    @@ (15 :> [type |-> "MethodHandle",
               aspects |-> <<Aspect("reference_kind", "get_u1", "none"),
                             U2Int("reference_index")>>])
    @@ (16 :> [type |-> "MethodType", aspects |-> <<U2Int("descriptor_index")>>])
    @@ (18 :> [type |-> "InvokeDynamic",
               aspects |-> RefPair("bootstrap_method_attr_index")])

\* The primitive a lambda of the table calls.
ReadPrim(read, off) ==
    CASE read = "get_u1" -> get_u1(off)
      [] read = "get_u2" -> get_u2(off)
      [] read = "get_u4" -> get_u4(off)
      [] read = "get_u8" -> get_u8(off)
      [] read = "get_extended" -> get_extended(off, 0)

\* The conversion a lambda applies to the bytes b it read.
Convert(conv, b) ==
    CASE conv = "int" -> [ok |-> TRUE, value |-> from_bytes(b), err |-> ""]
      [] conv = "utf-8" -> [ok |-> decode_utf8(b, 1, <<>>).ok,
                            value |-> decode_utf8(b, 1, <<>>).text,
                            err |-> "UnicodeDecodeError"]
      [] conv = "unpack_f" -> [ok |-> struct_unpack(4, b).ok,
                               value |-> struct_unpack(4, b).value,
                               err |-> "struct.error"]
      [] conv = "unpack_d" -> [ok |-> struct_unpack(8, b).ok,
                               value |-> struct_unpack(8, b).value,
                               err |-> "struct.error"]
      [] conv = "none" -> [ok |-> TRUE, value |-> b, err |-> ""]

\* The outcome of a lambda whose primitive returned r and whose conversion
\* gave c: an exception of either ends it.
AspectResult(r, c) ==
    IF ~c.ok THEN [value |-> 0, offset |-> r.offset, err |-> c.err, rds |-> r.rds]
    ELSE [value |-> c.value, offset |-> r.offset, err |-> "", rds |-> r.rds]

Converted(a, r) ==
    IF r.err # "" THEN [value |-> 0, offset |-> r.offset, err |-> r.err, rds |-> r.rds]
    ELSE AspectResult(r, Convert(a.conv, r.value))

\* One lambda of the table called at offset off (line 145).
EvalAspect(a, off) == Converted(a, ReadPrim(a.read, off))

\* acc holds the aspects evaluated so far, the offset, the exception raised
\* if any and the primitives called; e is the outcome of aspect a.
Accumulate(a, acc, e) ==
    [aspects |-> IF e.err = ""
                 THEN Append(acc.aspects, [name |-> a.name, value |-> e.value])
                 ELSE acc.aspects,
     offset |-> e.offset, err |-> e.err, rds |-> acc.rds \o e.rds]

\* Line 145 for one aspect.
StepAspect(a, acc) == Accumulate(a, acc, EvalAspect(a, acc.offset))

\* The loop of lines 143-145 from the k-th aspect on: the aspects are
\* evaluated in the dict's order, the first exception ends the loop.
RECURSIVE EvalAspects(_, _, _)
EvalAspects(aspects, k, acc) ==
    IF k > Len(aspects) \/ acc.err # "" THEN acc
    ELSE EvalAspects(aspects, k + 1, StepAspect(aspects[k], acc))

\* Lines 142-146 for the tag byte t read: the constant built from the
\* table's entry, e the outcome of its lambdas.
BuildConstant(t, e) ==
    [tag |-> t.value,
     constant |-> [type |-> tag_table[t.value].type, aspects |-> e.aspects],
     offset |-> e.offset, err |-> e.err, rds |-> e.rds]

\* Line 142: tag_table.get(tag, None).copy() fails on None.
DispatchTag(t) ==
    IF t.err # ""
    THEN [tag |-> tag, constant |-> Unset, offset |-> t.offset, err |-> t.err, rds |-> t.rds]
    ELSE IF t.value \notin DOMAIN tag_table
    THEN [tag |-> t.value, constant |-> Unset, offset |-> t.offset,
          err |-> "AttributeError", rds |-> t.rds]
    ELSE BuildConstant(t, EvalAspects(tag_table[t.value].aspects, 1,
                          [aspects |-> <<>>, offset |-> t.offset, err |-> "",
                           rds |-> t.rds]))

\* Lines 141-146 at offset off: the tag, the decoded constant, the offset
\* after, the exception raised if any.
DecodeConstant(off) == DispatchTag(get_u1(off))

----------------------------------------------------------------------------
(* The input files: byte buffers built from a constant pool and the member *)
(* and attribute tables, and their truncations.                            *)

U2(n) == <<n \div 256, n % 256>>

U4(n) == <<0, 0>> \o U2(n)

RECURSIVE Flatten(_)
Flatten(ss) == IF ss = <<>> THEN <<>> ELSE ss[1] \o Flatten(Tail(ss))

SeqsUpTo(S, n) == UNION {[1..k -> S] : k \in 0..n}

Utf8Code == <<1>> \o U2(4) \o CodeText

LongNine == <<5, 0, 0, 0, 0, 0, 0, 0, 9>>

ConstantChoices ==
    { Utf8Code, <<1, 0, 0>>, <<1, 0, 1, 255>>, <<3, 0, 0, 0, 7>>, <<4, 63, 128, 0, 0>>,
      LongNine, <<6, 64, 0, 0, 0, 0, 0, 0, 0>>, <<7, 0, 1>>, <<8, 0, 1>>,
      <<9, 0, 1, 0, 2>>, <<10, 0, 1, 0, 2>>, <<11, 0, 1, 0, 2>>, <<12, 0, 1, 0, 2>>,
      <<15, 1, 0, 2>>, <<16, 0, 1>>, <<18, 0, 0, 0, 2>>, <<2>> }

\* The number of constants of cp that take two index slots in the format.
Wides(cp) == Cardinality({k \in 1..Len(cp) : cp[k][1] \in {5, 6}})

Payload(n) == [k \in 1..n |-> k]

AttrBytes(a) == U2(a.name) \o U4(a.len) \o Payload(a.len)

AttrsBytes(as) == Flatten([k \in 1..Len(as) |-> AttrBytes(as[k])])

MemberBytes(as) == U2(1) \o U2(3) \o U2(4) \o U2(Len(as)) \o AttrsBytes(as)

MembersBytes(ms) == U2(Len(ms)) \o Flatten([k \in 1..Len(ms) |-> MemberBytes(ms[k])])

ClassFileBytes(declared, cp, nif, flds, mths, cattrs) ==
    <<202, 254, 186, 190>> \o U2(0) \o U2(52) \o U2(declared) \o Flatten(cp)
    \o U2(33) \o U2(1) \o U2(2)
    \o U2(nif) \o Flatten([k \in 1..nif |-> U2(1)])
    \o MembersBytes(flds) \o MembersBytes(mths)
    \o U2(Len(cattrs)) \o AttrsBytes(cattrs)

Prefixes(f) == {SubSeq(f, 1, n) : n \in 0..Len(f)}

AttrChoices == [name : 0..2, len : 0..MaxLen]

SmallAttrs == SeqsUpTo([name : {0, 1}, len : {0, 1}], 1)

SmallMembers == {<<>>} \cup {<<as>> : as \in SmallAttrs}

PoolFiles(n) ==
    UNION {{ClassFileBytes(d, cp, 0, <<>>, <<>>, <<>>) :
                d \in {Len(cp) + 1, Len(cp) + 1 + Wides(cp)}} :
           cp \in SeqsUpTo(ConstantChoices, n)}

MethodFiles ==
    {ClassFileBytes(Len(cp) + 1, cp, 0, <<>>, <<as>>, <<>>) :
        cp \in {<<>>, <<Utf8Code>>, <<LongNine, Utf8Code>>},
        as \in SeqsUpTo(AttrChoices, MaxAttrs)}

SectionFiles ==
    {ClassFileBytes(Len(cp) + 1, cp, nif, f, m, c) :
        cp \in {<<>>, <<Utf8Code>>}, nif \in {0, 1},
        f \in SmallMembers, m \in SmallMembers, c \in SmallAttrs}

TruncatedFiles ==
    UNION {Prefixes(f) : f \in PoolFiles(1) \cup
             {ClassFileBytes(2, <<Utf8Code>>, 0, <<>>,
                             <<<<[name |-> 1, len |-> MaxLen]>>>>, <<>>)}}

Inputs == PoolFiles(MaxPool) \cup MethodFiles \cup SectionFiles \cup TruncatedFiles

----------------------------------------------------------------------------
(* ClassFile.__init__, lines 11-57, and the loops it runs *)

\* Lines 16-20: the file is read, the cursor and the code accumulator are
\* reset; files is the set the file is taken from.
InitOn(files) ==
    /\ data \in files
    /\ offset = 0
    /\ i_am_code = 0
    /\ run_code = <<>>
    /\ magic = Unset /\ minor = Unset /\ major = Unset
    /\ pool_count = Unset /\ cp_begin = Unset
    /\ constant_pool = Unset
    /\ access_flags = Unset /\ this_class = Unset /\ super_class = Unset
    /\ interfaces_count = Unset /\ interfaces_begin = Unset /\ interfaces = Unset
    /\ fields_count = Unset /\ fields_begin = Unset /\ fields = Unset
    /\ methods_count = Unset /\ methods_begin = Unset /\ methods = Unset
    /\ class_attributes_count = Unset /\ class_attributes = Unset
    /\ pool = Unset /\ index = Unset /\ range_next = Unset /\ tag = Unset
    /\ info = Unset /\ val = Unset /\ count = Unset /\ section = Unset
    /\ attributes = Unset /\ num_attributes = Unset /\ attr_count = Unset
    /\ pc = "start"
    /\ err = ""
    /\ reads = <<>>

Init == InitOn(Inputs)

\* Complete files without interfaces: a pool, one method and its attributes.
InitMethods == InitOn(MethodFiles)

\* Lines 21-27 and 138-139: magic, versions, pool_count; get_constant_pool is
\* entered and pool[0] set.
ReadHeader ==
    /\ pc = "start"
    /\ LET m == get_u4(offset)
           mi == get_u2(m.offset)
           ma == get_u2(mi.offset)
           pcnt == get_u2(ma.offset)
       IN /\ magic' = m.value
          /\ minor' = from_bytes(mi.value)
          /\ major' = from_bytes(ma.value)
          /\ pool_count' = from_bytes(pcnt.value)
          /\ offset' = pcnt.offset
          /\ cp_begin' = pcnt.offset
          /\ pool' = (0 :> from_bytes(pcnt.value))
          /\ reads' = m.rds \o mi.rds \o ma.rds \o pcnt.rds
    /\ range_next' = 1
    /\ pc' = "pool"
    /\ UNCHANGED <<data, code, constant_pool, classinfo, sections, index, tag,
                   infolocals, attrlocals, err>>

\* Lines 146-150 for the outcome d of lines 141-145: an exception leaves the
\* constructor; otherwise the constant is stored, "Code" is noted and, after
\* a Long or Double, index is incremented.
StoreConstant(d) ==
    /\ offset' = d.offset
    /\ tag' = d.tag
    /\ reads' = d.rds
    /\ range_next' = range_next + 1
    /\ IF d.err # ""
       THEN /\ err' = d.err
            /\ pc' = "error"
            /\ index' = range_next
            /\ UNCHANGED <<pool, i_am_code>>
       ELSE /\ pool' = (range_next :> d.constant) @@ pool
            /\ i_am_code' = IF d.tag = 1 /\ d.constant.aspects[1].value = CodeText
                            THEN range_next ELSE i_am_code
            /\ index' = IF d.tag \in {5, 6} THEN range_next + 1 ELSE range_next
            /\ UNCHANGED <<pc, err>>

\* Lines 140-150: one iteration of the loop over range(1, pool_count).  The
\* range yields range_next whatever the body did to index.
ReadConstant ==
    /\ pc = "pool"
    /\ range_next < pool_count
    /\ StoreConstant(DecodeConstant(offset))
    /\ UNCHANGED <<data, run_code, header, constant_pool, classinfo, sections,
                   infolocals, attrlocals>>

\* Lines 151 and 28-32: the pool is returned, then access_flags, this_class
\* and super_class are read.
ReadClassInfo ==
    /\ pc = "pool"
    /\ range_next >= pool_count
    /\ LET a == get_u2(offset)
           t == get_u2(a.offset)
           s == get_u2(t.offset)
       IN /\ access_flags' = a.value
          /\ this_class' = t.value
          /\ super_class' = s.value
          /\ offset' = s.offset
          /\ reads' = a.rds \o t.rds \o s.rds
    /\ constant_pool' = pool
    /\ pc' = "interfaces_count"
    /\ UNCHANGED <<data, code, header, sections, cpool, infolocals, attrlocals, err>>

\* Where __init__ continues after the section's get_info call returns.
NextCount(sec) ==
    CASE sec = "interfaces" -> "fields_count"
      [] sec = "fields" -> "methods_count"
      [] sec = "methods" -> "class_attributes_count"

\* Lines 38, 44, 50, 55: the value a section's call returns is stored.
AssignSection(sec, value) ==
    /\ interfaces' = IF sec = "interfaces" THEN value ELSE interfaces
    /\ fields' = IF sec = "fields" THEN value ELSE fields
    /\ methods' = IF sec = "methods" THEN value ELSE methods
    /\ class_attributes' = IF sec = "class_attributes" THEN value ELSE class_attributes
    /\ UNCHANGED <<interfaces_count, interfaces_begin, fields_count, fields_begin,
                   methods_count, methods_begin, class_attributes_count>>

\* Lines 37-38, 43-44, 49-50 and 156: get_info is called only for a count
\* that is not zero; it starts with info[0] and val = 1.
EnterInfo(c, sec) ==
    IF c # 0
    THEN /\ info' = (0 :> [values_count |-> c])
         /\ val' = 1
         /\ count' = c
         /\ section' = sec
         /\ pc' = "info"
    ELSE /\ pc' = NextCount(sec)
         /\ UNCHANGED infolocals

\* Lines 35-38.
ReadInterfacesCount ==
    /\ pc = "interfaces_count"
    /\ LET c == get_u2(offset) IN
       /\ interfaces_count' = from_bytes(c.value)
       /\ interfaces_begin' = c.offset
       /\ offset' = c.offset
       /\ reads' = c.rds
       /\ EnterInfo(from_bytes(c.value), "interfaces")
    /\ UNCHANGED <<data, code, header, constant_pool, classinfo, cpool, attrlocals, err,
                   interfaces, fields_count, fields_begin, fields,
                   methods_count, methods_begin, methods,
                   class_attributes_count, class_attributes>>

\* Lines 41-44.
ReadFieldsCount ==
    /\ pc = "fields_count"
    /\ LET c == get_u2(offset) IN
       /\ fields_count' = from_bytes(c.value)
       /\ fields_begin' = c.offset
       /\ offset' = c.offset
       /\ reads' = c.rds
       /\ EnterInfo(from_bytes(c.value), "fields")
    /\ UNCHANGED <<data, code, header, constant_pool, classinfo, cpool, attrlocals, err,
                   interfaces_count, interfaces_begin, interfaces, fields,
                   methods_count, methods_begin, methods,
                   class_attributes_count, class_attributes>>

\* Lines 47-50.
ReadMethodsCount ==
    /\ pc = "methods_count"
    /\ LET c == get_u2(offset) IN
       /\ methods_count' = from_bytes(c.value)
       /\ methods_begin' = c.offset
       /\ offset' = c.offset
       /\ reads' = c.rds
       /\ EnterInfo(from_bytes(c.value), "methods")
    /\ UNCHANGED <<data, code, header, constant_pool, classinfo, cpool, attrlocals, err,
                   interfaces_count, interfaces_begin, interfaces,
                   fields_count, fields_begin, fields, methods,
                   class_attributes_count, class_attributes>>

\* Lines 53-57 and 169-172: get_attributes is called only for a count that is
\* not zero; without class attributes the constructor is finished.
ReadClassAttributesCount ==
    /\ pc = "class_attributes_count"
    /\ LET c == get_u2(offset) IN
       /\ class_attributes_count' = from_bytes(c.value)
       /\ offset' = c.offset
       /\ reads' = c.rds
       /\ IF from_bytes(c.value) # 0
          THEN /\ attributes' = <<0>>
               /\ num_attributes' = 0
               /\ attr_count' = from_bytes(c.value)
               /\ section' = "class_attributes"
               /\ pc' = "attributes"
          ELSE /\ pc' = "done"
               /\ UNCHANGED <<attrlocals, section>>
    /\ UNCHANGED <<data, code, header, constant_pool, classinfo, cpool, err,
                   info, val, count,
                   interfaces_count, interfaces_begin, interfaces,
                   fields_count, fields_begin, fields,
                   methods_count, methods_begin, methods, class_attributes>>

\* Lines 163-164 once get_attributes has returned attrs for info[val]: the
\* next member is read, or info is returned to __init__ after the last one.
FinishMember(attrs) ==
    /\ info' = (val :> ([attributes |-> attrs] @@ info[val])) @@ info
    /\ IF val < count
       THEN /\ val' = val + 1
            /\ pc' = "info"
            /\ UNCHANGED sections
       ELSE /\ val' = val
            /\ pc' = NextCount(section)
            /\ AssignSection(section, (val :> ([attributes |-> attrs] @@ info[val])) @@ info)
    /\ UNCHANGED <<count, section>>

\* Lines 158-163 and 169-172: the four u2 fields of info[val], then
\* get_attributes is entered; with a count of zero it returns [0] at once.
ReadMember ==
    /\ pc = "info"
    /\ LET a == get_u2(offset)
           n == get_u2(a.offset)
           d == get_u2(n.offset)
           c == get_u2(d.offset)
           member == [access_flags |-> a.value,
                      name_index |-> from_bytes(n.value),
                      descriptor_index |-> from_bytes(d.value),
                      attributes_count |-> from_bytes(c.value)]
       IN /\ offset' = c.offset
          /\ reads' = a.rds \o n.rds \o d.rds \o c.rds
          /\ attributes' = <<0>>
          /\ num_attributes' = 0
          /\ attr_count' = from_bytes(c.value)
          /\ IF from_bytes(c.value) # 0
             THEN /\ info' = (val :> member) @@ info
                  /\ pc' = "attributes"
                  /\ UNCHANGED <<val, count, section, sections>>
             ELSE /\ info' = (val :> ([attributes |-> <<0>>] @@ member)) @@ info
                  /\ IF val < count
                     THEN /\ val' = val + 1
                          /\ pc' = "info"
                          /\ UNCHANGED sections
                     ELSE /\ val' = val
                          /\ pc' = NextCount(section)
                          /\ AssignSection(section,
                                 (val :> ([attributes |-> <<0>>] @@ member)) @@ info)
                  /\ UNCHANGED <<count, section>>
    /\ UNCHANGED <<data, code, header, constant_pool, classinfo, cpool, err>>

\* get_an_attribute at offset off, lines 185-193: the attribute, the offset
\* after it, the primitives called.
DecodeAttribute(off) ==
    LET n == get_u2(off)
        l == get_u4(n.offset)
        x == get_extended(l.offset, from_bytes(l.value))
    IN [attribute |-> [name_index |-> from_bytes(n.value),
                       length |-> from_bytes(l.value),
                       info |-> x.value],
        offset |-> x.offset,
        rds |-> n.rds \o l.rds \o x.rds]

\* Lines 173-178 with get_an_attribute: one iteration of the while loop; after
\* the last one the list is returned to get_info or to __init__.
ReadAttribute ==
    /\ pc = "attributes"
    /\ LET d == DecodeAttribute(offset)
           attrs == Append([attributes EXCEPT ![1] = @ + 6 + d.attribute.length],
                           d.attribute)
       IN /\ offset' = d.offset
          /\ reads' = d.rds
          /\ run_code' = IF d.attribute.name_index = i_am_code
                         THEN run_code \o d.attribute.info ELSE run_code
          /\ attributes' = attrs
          /\ num_attributes' = num_attributes + 1
          /\ IF num_attributes + 1 < attr_count
             THEN UNCHANGED <<pc, infolocals, sections>>
             ELSE IF section = "class_attributes"
             THEN /\ pc' = "done"
                  /\ AssignSection(section, attrs)
                  /\ UNCHANGED infolocals
             ELSE FinishMember(attrs)
    /\ UNCHANGED <<data, i_am_code, header, constant_pool, classinfo, cpool,
                   attr_count, err>>

Next ==
    \/ ReadHeader
    \/ ReadConstant
    \/ ReadClassInfo
    \/ ReadInterfacesCount
    \/ ReadFieldsCount
    \/ ReadMethodsCount
    \/ ReadClassAttributesCount
    \/ ReadMember
    \/ ReadAttribute

Spec == Init /\ [][Next]_vars

SpecMethods == InitMethods /\ [][Next]_vars

----------------------------------------------------------------------------
(* Properties *)

RECURSIVE Sum(_)
Sum(w) == IF w = <<>> THEN 0 ELSE w[1] + Sum(Tail(w))

\* The fourteen tags of the format.
RecognizedTags == {1, 3, 4, 5, 6, 7, 8, 9, 10, 11, 12, 15, 16, 18}

\* The widths of the fields of a constant after its tag byte, in order; L is
\* the length prefix of a Utf8 constant.
FieldWidths(t, L) ==
    CASE t = 1 -> <<2, L>>
      [] t \in {3, 4} -> <<4>>
      [] t \in {5, 6} -> <<8>>
      [] t \in {7, 8, 16} -> <<2>>
      [] t \in {9, 10, 11, 12, 18} -> <<2, 2>>
      [] t = 15 -> <<1, 2>>

\* The reads of a step are those of widths w, one after the other from off.
ReadsAre(rds, w, off) ==
    /\ Len(rds) = Len(w)
    /\ \A k \in 1..Len(w) :
         rds[k].want = w[k] /\ rds[k].at = off + Sum(SubSeq(w, 1, k - 1))

ConstantSpan(w) ==
    /\ offset' - offset = Sum(w)
    /\ ReadsAre(reads', w, offset)

\* C8: a step of get_constant_pool that stores a constant advances the cursor
\* by the tag byte plus the widths of the tag's fields (for tag 1 the u2
\* prefix and the L bytes it announces, L = 0 included) and reads these
\* fields one after the other in the table's order, nothing else.
C8_ConstantConsumesItsShape ==
    [][(ReadConstant /\ pc' = "pool") =>
         ConstantSpan(<<1>> \o FieldWidths(tag', from_bytes(Slice(offset + 1, 2))))]_vars

\* C8 witness: a Utf8 constant with an empty text and a MethodHandle have been
\* stored, the last one read as tag, u1, u2.
C8_Witness ==
    /\ pc = "pool"
    /\ range_next = 3
    /\ pool[1].type = "utf-8" /\ pool[1].aspects[1].value = <<>>
    /\ pool[2].type = "MethodHandle"
    /\ Len(reads) = 3

\* C1: every attribute read by get_an_attribute holds exactly `length` info
\* bytes and moves the cursor by 6 + length, a length of 0 included.
C1_AttributeIsLengthBytes ==
    [][ReadAttribute =>
         /\ Len(attributes'[Len(attributes')].info) = attributes'[Len(attributes')].length
         /\ offset' = offset + 6 + attributes'[Len(attributes')].length]_vars

\* C2: after a Long or Double stored at index i, index i + 1 is absent from
\* the pool (the constant that follows is stored at i + 2).
C2_WideConstantSkipsIndex ==
    \A i \in DOMAIN pool \ {0} :
        pool[i].type \in {"Long", "Double"} => (i + 1) \notin DOMAIN pool

ShortRead == \E k \in 1..Len(reads) : reads[k].got < reads[k].want

\* C3: a read that asks for more bytes than the buffer holds ends the decode
\* with the end-of-input error; no primitive returns fewer bytes than asked
\* for and the decode never completes past the end of the buffer.
C3_TruncatedInputFails ==
    /\ ShortRead => pc = "error" /\ err = "IndexError"
    /\ pc = "done" => offset <= Len(data)

\* C4: an unrecognized tag byte aborts the decode with UnknownConstantTag and
\* the offset at which the tag byte was read.
C4_UnknownTagError ==
    (pc = "error" /\ reads[1].got = 1 /\ data[reads[1].at + 1] \notin RecognizedTags)
        => err = "UnknownConstantTag" /\ offset = reads[1].at

\* C5: the cursor stays inside the buffer, 0 <= offset <= len(data).
C5_OffsetInBuffer == 0 <= offset /\ offset <= Len(data)

FieldsCountRead ==
    \/ pc \in {"methods_count", "class_attributes_count", "done"}
    \/ pc \in {"info", "attributes"} /\ section # "interfaces"

\* C6: the interfaces section is interfaces_count u2 values: from the read of
\* interfaces_count to the read of fields_count the cursor advances by
\* 2 * interfaces_count.
C6_InterfacesAreU2 ==
    FieldsCountRead => fields_begin - 2 - interfaces_begin = 2 * interfaces_count

\* The info bytes of the attributes of a list named by the "Code" index.
CodeOfAttributes(attrs) ==
    Flatten([k \in 1..(Len(attrs) - 1) |->
                IF attrs[k + 1].name_index = i_am_code THEN attrs[k + 1].info ELSE <<>>])

CodeOfMembers(members) ==
    Flatten([k \in 1..(Cardinality(DOMAIN members) - 1) |->
                CodeOfAttributes(members[k].attributes)])

\* C7: with a Utf8 "Code" in the pool, after the decode run_code is the
\* concatenation, in file order, of the info bytes of the field, method and
\* class attributes named by its index.
C7_CodeAccumulator ==
    (pc = "done" /\ i_am_code >= 1) =>
        run_code = CodeOfMembers(fields) \o CodeOfMembers(methods)
                   \o CodeOfAttributes(class_attributes)

\* C9: get_attributes reads exactly count attributes and element 0 grows with
\* the bytes the cursor advances, so that on return it is the advance of the
\* whole call.
C9_SpanIsCursorAdvance ==
    [][ReadAttribute =>
         /\ attributes'[1] - attributes[1] = offset' - offset
         /\ (num_attributes' = attr_count => Len(attributes') = attr_count + 1)]_vars

NoCodeInPool ==
    \A i \in DOMAIN pool \ {0} :
        ~(pool[i].type = "utf-8" /\ pool[i].aspects[1].value = CodeText)

\* C10: without a Utf8 "Code" in the pool nothing is appended to run_code,
\* whatever name_index the attributes carry.
C10_NoCodeNoAccumulation == NoCodeInPool => run_code = <<>>

====
